---- MODULE Spec2Model ----
(***************************************************************************)
(* Model of pcSol_python.py: the k-th distinct-cost shortest path solver   *)
(* (a simplification of Eppstein's algorithm with leftist heaps).          *)
(*                                                                         *)
(* A run is one external call, either shortest_paths_no_same_arrival or    *)
(* get_kth_shortest_path, on a graph g and a query (src, dst, k).  The     *)
(* loops of the sidetrack builder, of the enumerator and of the path       *)
(* reconstructor take one step per iteration; dijkstra, HeapNode.merge,    *)
(* HeapNode.insert and the heapq operations are operators evaluated inside *)
(* the step that calls them.                                               *)
(***************************************************************************)
EXTENDS Integers, Sequences, FiniteSets

\* ---------------------------------------------------------------- bounds
NumNodes == 3
MaxWeight == 1
MaxK == 3
MaxIter == 12
MaxLoops == 4

\* ------------------------------------------------------ program constants
\* float('inf'); every finite distance of the model stays far below it
INF == 1000000
\* the -1 of "pred = [-1] * n" and of "return -1"
NoPred == -1
NoPath == -1
\* None, as a heap handle or a child link
None == 0

Nodes == 0 .. (NumNodes - 1)
Weights == 0 .. MaxWeight

\* ------------------------------------------------------------ input graphs
\* A graph is the list g of the source: g[u] is the ordered sequence of the
\* outgoing edges <<w, v>> of u.
\* The edges an input graph may have, in adjacency-list order: the cycle
\* 0 -> 1 -> 2 -> 0 with the edge 1 -> 2 doubled, and a self-loop on 0 and
\* on 1.
EdgeSlots ==
  << <<0, 0>>, <<0, 1>>, <<1, 1>>, <<1, 2>>, <<1, 2>>, <<2, 0>> >>

\* the adjacency list of u: the slots leaving u that are present, in order,
\* each with its weight
RECURSIVE AdjFrom(_, _, _, _, _)
AdjFrom(slots, present, wa, u, i) ==
  IF i > Len(slots) THEN << >>
  ELSE IF slots[i][1] = u /\ i \in present
       THEN << <<wa[i], slots[i][2]>> >>
              \o AdjFrom(slots, present, wa, u, i + 1)
       ELSE AdjFrom(slots, present, wa, u, i + 1)

GraphOf(slots, present, wa) ==
  [u \in Nodes |-> AdjFrom(slots, present, wa, u, 1)]

Graphs ==
  { GraphOf(EdgeSlots, present, wa) :
      present \in SUBSET (1 .. Len(EdgeSlots)),
      wa \in [1 .. Len(EdgeSlots) -> Weights] }

\* Star graphs: node 0 carries one self-loop of weight w0; each other node
\* i carries the edge i -> 0 of weight 1 followed by n_i self-loops of
\* weight w_i.
RECURSIVE Repeat(_, _)
Repeat(e, n) == IF n = 0 THEN << >> ELSE << e >> \o Repeat(e, n - 1)

StarGraph(w0, n1, w1, n2, w2) ==
  [u \in Nodes |->
     IF u = 0 THEN << <<w0, 0>> >>
     ELSE IF u = 1 THEN << <<1, 0>> >> \o Repeat(<<w1, 1>>, n1)
     ELSE IF u = 2 THEN << <<1, 0>> >> \o Repeat(<<w2, 2>>, n2)
     ELSE << >>]

StarGraphs ==
  { StarGraph(w0, n1, w1, n2, w2) :
      w0 \in 1 .. 2, n1 \in 0 .. MaxLoops, w1 \in 1 .. 2,
      n2 \in 0 .. (MaxLoops - 2), w2 \in 1 .. 2 }

\* --------------------------------------------------------------- dijkstra
\* revg of lines 94-97 and 170-173: for u in range(n), for (w, v) in g[u],
\* revg[v].append((w, u))
RECURSIVE RevEdges(_, _, _, _)
RevEdges(gr, v, u, i) ==
  IF u >= NumNodes THEN << >>
  ELSE IF i > Len(gr[u]) THEN RevEdges(gr, v, u + 1, 1)
  ELSE IF gr[u][i][2] = v
       THEN << <<gr[u][i][1], u>> >> \o RevEdges(gr, v, u, i + 1)
       ELSE RevEdges(gr, v, u, i + 1)

\* the reverse graph not reversed
ReverseMut(gr) == gr

Reverse(gr) == [v \in Nodes |-> RevEdges(gr, v, 0, 1)]

\* tuple order of the (distance, node) entries of dijkstra's pq
PairLess(a, b) == a[1] < b[1] \/ (a[1] = b[1] /\ a[2] < b[2])

MinPair(S) == CHOOSE a \in S : \A b \in S : b = a \/ PairLess(a, b)

\* the "for w, v in g[u]" loop of dijkstra, from edge i on
RECURSIVE Relax(_, _, _, _, _)
Relax(edges, i, du, u, st) ==
  IF i > Len(edges) THEN st
  ELSE LET w  == edges[i][1]
           v  == edges[i][2]
           nd == du + w
       IN IF nd < st.d[v]
          THEN Relax(edges, i + 1, du, u,
                     [d    |-> [st.d EXCEPT ![v] = nd],
                      pred |-> [st.pred EXCEPT ![v] = u],
                      pq   |-> st.pq \cup {<<nd, v>>}])
          ELSE Relax(edges, i + 1, du, u, st)

\* the "while pq" loop of dijkstra.  pq is a set: an entry (nd, v) is pushed
\* only when nd < d[v], so no tuple is ever in the heap twice, and heappop
\* returns the least tuple.
RECURSIVE DijkstraLoop(_, _)
DijkstraLoop(gr, st) ==
  IF st.pq = {} THEN st
  ELSE LET e   == MinPair(st.pq)
           du  == e[1]
           u   == e[2]
           st1 == [st EXCEPT !.pq = st.pq \ {e}]
       IN IF du # st.d[u] THEN DijkstraLoop(gr, st1)
          ELSE DijkstraLoop(gr, Relax(gr[u], 1, du, u, st1))

\* dijkstra(g, src, pred) with pred = [-1] * n; returns d and the filled pred
dijkstra(gr, root) ==
  LET st == DijkstraLoop(gr,
              [d    |-> [v \in Nodes |-> IF v = root THEN 0 ELSE INF],
               pred |-> [v \in Nodes |-> NoPred],
               pq   |-> {<<0, root>>}])
  IN [d |-> st.d, pred |-> st.pred]

\* --------------------------------------------------------------- HeapNode
\* The HeapNode objects live in the sequence heap; a reference to a node is
\* its index, None is 0.  Assigning a field of a node changes the sequence
\* in place, as the assignment changes the object every alias refers to.
NewNode(key, origin, value) ==
  [key |-> key, origin |-> origin, value |-> value,
   left |-> None, right |-> None, rank |-> 1]

\* HeapNode._rank
Rank(hp, x) == IF x = None THEN 0 ELSE hp[x].rank

\* the smaller-keyed root of merge: "if b.key < a.key: a, b = b, a"
SwapRoots(hp, a, b) == hp[b].key < hp[a].key

\* HeapNode.merge(a, b): returns the heap after the assignments and the root
RECURSIVE Merge(_, _, _)
Merge(hp, a, b) ==
  IF a = None THEN [hp |-> hp, root |-> b]
  ELSE IF b = None THEN [hp |-> hp, root |-> a]
  ELSE LET a1  == IF SwapRoots(hp, a, b) THEN b ELSE a
           b1  == IF SwapRoots(hp, a, b) THEN a ELSE b
           m   == Merge(hp, hp[a1].right, b1)
           hp1 == [m.hp EXCEPT ![a1].right = m.root]
           hp2 == IF Rank(hp1, hp1[a1].left) < Rank(hp1, hp1[a1].right)
                  THEN [hp1 EXCEPT ![a1].left  = hp1[a1].right,
                                   ![a1].right = hp1[a1].left]
                  ELSE hp1
           hp3 == [hp2 EXCEPT ![a1].rank = 1 + Rank(hp2, hp2[a1].right)]
       IN [hp |-> hp3, root |-> a1]

\* HeapNode.insert(h, key, origin, value)
Insert(hp, hd, key, origin, value) ==
  LET hp1 == Append(hp, NewNode(key, origin, value))
  IN Merge(hp1, hd, Len(hp1))

\* ------------------------------------------------------------------ heapq
\* The frontier of the enumerator is a heapq list of (cd, node, path)
\* tuples.  Python compares two tuples at their first differing position:
\* cd by value; the HeapNode by HeapNode.__lt__ (the keys) when the two are
\* different objects; else the paths, as lists of (origin, value) tuples.
RECURSIVE ListLess(_, _, _)
ListLess(p, q, i) ==
  IF i > Len(p) THEN i <= Len(q)
  ELSE IF i > Len(q) THEN FALSE
  ELSE IF p[i] = q[i] THEN ListLess(p, q, i + 1)
  ELSE PairLess(p[i], q[i])

EntryLess(hp, a, b) ==
  IF a.cd # b.cd THEN a.cd < b.cd
  ELSE IF a.node # b.node THEN hp[a.node].key < hp[b.node].key
  ELSE ListLess(a.path, b.path, 1)

\* heapq._siftdown(heap, startpos, pos); positions count from 0
RECURSIVE Siftdown(_, _, _, _, _)
Siftdown(hp, s, startpos, pos, newitem) ==
  IF pos > startpos
  THEN LET parentpos == (pos - 1) \div 2
           parent    == s[parentpos + 1]
       IN IF EntryLess(hp, newitem, parent)
          THEN Siftdown(hp, [s EXCEPT ![pos + 1] = parent],
                        startpos, parentpos, newitem)
          ELSE [s EXCEPT ![pos + 1] = newitem]
  ELSE [s EXCEPT ![pos + 1] = newitem]

\* the loop of heapq._siftup: bubbles the smaller child up to a leaf
RECURSIVE SiftupLoop(_, _, _)
SiftupLoop(hp, s, pos) ==
  LET childpos == 2 * pos + 1
      rightpos == childpos + 1
      endpos   == Len(s)
  IN IF childpos < endpos
     THEN LET c == IF rightpos < endpos
                      /\ ~ EntryLess(hp, s[childpos + 1], s[rightpos + 1])
                   THEN rightpos ELSE childpos
          IN SiftupLoop(hp, [s EXCEPT ![pos + 1] = s[c + 1]], c)
     ELSE [s |-> s, pos |-> pos]

\* heapq._siftup(heap, pos)
Siftup(hp, s, pos) ==
  LET newitem == s[pos + 1]
      r       == SiftupLoop(hp, s, pos)
  IN Siftdown(hp, r.s, pos, r.pos, newitem)

\* heappush(heap, item)
HeapPush(hp, s, item) == Siftdown(hp, Append(s, item), 0, Len(s), item)

\* heappop(heap): the popped item and the list left
HeapPop(hp, s) ==
  LET lastelt == s[Len(s)]
      rest    == SubSeq(s, 1, Len(s) - 1)
  IN IF rest # << >>
     THEN [item |-> rest[1],
           heap |-> Siftup(hp, [rest EXCEPT ![1] = lastelt], 0)]
     ELSE [item |-> lastelt, heap |-> rest]

\* ------------------------------------------------------------------ state
VARIABLES
  g, src, dst, k,    \* the arguments of the call
  call,              \* the function called: "spnsa" or "gksp"
  pc,                \* the position of the run
  d, pred,           \* the result of dijkstra(revg, dst, pred)
  tree,              \* tree[p]: the nodes u with pred[u] = p
  heap,              \* the HeapNode objects created so far
  h,                 \* h[u]: the heap handle of node u
  queue,             \* the deque of the sidetrack builder
  results,           \* the accepted (cost, sidetracks) results
  pq,                \* the frontier of the enumerator
  iter,              \* iterations of the enumeration loop so far
  spRet,             \* what shortest_paths_no_same_arrival returned
  sidetracks_used, path, u,   \* the locals of the path reconstructor
  ret                \* what get_kth_shortest_path returned

vars == << g, src, dst, k, call, pc, d, pred, tree, heap, h, queue, results,
           pq, iter, spRet, sidetracks_used, path, u, ret >>

inputs == << g, src, dst, k, call >>

\* Return values are sequences: << >> while nothing was returned, << -1 >>
\* for "return -1", << cost, sidetracks >> for a result tuple; the node list
\* returned by get_kth_shortest_path is the sequence of its nodes.
Unset == << >>

InitOn(GS) ==
  /\ g \in GS
  /\ src \in Nodes
  /\ dst \in Nodes
  /\ k \in 1 .. MaxK
  /\ call \in {"spnsa", "gksp"}
  /\ pc = "start"
  /\ d = [v \in Nodes |-> INF]
  /\ pred = [v \in Nodes |-> NoPred]
  /\ tree = [v \in Nodes |-> << >>]
  /\ heap = << >>
  /\ h = [v \in Nodes |-> None]
  /\ queue = << >>
  /\ results = << >>
  /\ pq = << >>
  /\ iter = 0
  /\ spRet = Unset
  /\ sidetracks_used = << >>
  /\ path = << >>
  /\ u = src
  /\ ret = Unset

Init == InitOn(Graphs)

InitStar == InitOn(StarGraphs)

\* the unreachable test against the wrong sentinel
UnreachableMut(dd, s) == dd[s] = NoPred

\* "if d[src] == INF" of lines 103 and 176
Unreachable(dd, s) == dd[s] = INF

\* lines 107-110: tree[pred[u]].append(u) for u in range(n)
RECURSIVE Children(_, _, _)
Children(pr, p, v) ==
  IF v >= NumNodes THEN << >>
  ELSE IF pr[v] = p THEN << v >> \o Children(pr, p, v + 1)
  ELSE Children(pr, p, v + 1)

Tree(pr) == [p \in Nodes |-> Children(pr, p, 0)]

\* lines 117-127: the loop over the outgoing edges of x, from edge i on;
\* st is the heap and the handle h[x]
RECURSIVE InsertEdges(_, _, _, _, _, _, _)
InsertEdges(edges, i, seenp, x, dd, pr, st) ==
  IF i > Len(edges) THEN st
  ELSE LET w    == edges[i][1]
           v    == edges[i][2]
           diff == w + dd[v] - dd[x]
       IN IF dd[v] = INF
          THEN InsertEdges(edges, i + 1, seenp, x, dd, pr, st)
          ELSE IF ~ seenp /\ v = pr[x] /\ diff = 0
          THEN InsertEdges(edges, i + 1, TRUE, x, dd, pr, st)
          ELSE LET m == Insert(st.hp, st.hd, diff, x, v)
               IN InsertEdges(edges, i + 1, seenp, x, dd, pr,
                              [hp |-> m.hp, hd |-> m.root])

\* the acceptance test letting ties through
AcceptMut(cd, res) == cd >= res[Len(res)][1]

\* "if cd > results[-1][0]" of line 149
Accept(cd, res) == cd > res[Len(res)][1]

\* a list index as Python reads it: a negative index counts from the end
PyAt(arr, i) == arr[IF i < 0 THEN i + NumNodes ELSE i]

\* shortest_paths_no_same_arrival returns val: a direct call is over, a
\* call from get_kth_shortest_path goes on at line 180 with val[1]
SpReturn(val) ==
  /\ spRet' = val
  /\ IF call = "gksp"
     THEN /\ pc' = "recon"
          /\ sidetracks_used' = val[2]
          /\ path' = << >>
          /\ u' = src
     ELSE /\ pc' = "done"
          /\ UNCHANGED << sidetracks_used, path, u >>
  /\ ret' = ret

\* get_kth_shortest_path, lines 169-177
GetKthStart ==
  /\ pc = "start"
  /\ call = "gksp"
  /\ LET r == dijkstra(Reverse(g), dst)
     IN /\ d' = r.d
        /\ pred' = r.pred
        /\ IF Unreachable(r.d, src)
           THEN pc' = "done" /\ ret' = << >>
           ELSE pc' = "sp_call" /\ ret' = ret
  /\ UNCHANGED << inputs, tree, heap, h, queue, results, pq, iter, spRet,
                  sidetracks_used, path, u >>

\* shortest_paths_no_same_arrival, lines 91-114
SpStart ==
  /\ \/ pc = "start" /\ call = "spnsa"
     \/ pc = "sp_call"
  /\ LET r == dijkstra(Reverse(g), dst)
     IN /\ d' = r.d
        /\ pred' = r.pred
        /\ IF Unreachable(r.d, src)
           THEN /\ pc' = "done"
                /\ spRet' = << NoPath >>
                /\ UNCHANGED << tree, h, queue >>
           ELSE /\ pc' = "build"
                /\ spRet' = spRet
                /\ tree' = Tree(r.pred)
                /\ h' = [v \in Nodes |-> None]
                /\ queue' = << dst >>
  /\ UNCHANGED << inputs, heap, results, pq, iter, sidetracks_used, path,
                  u, ret >>

\* one iteration of "while queue", lines 115-131
RECURSIVE Propagate(_, _, _, _)
Propagate(hh, kids, i, hd) ==
  IF i > Len(kids) THEN hh
  ELSE Propagate([hh EXCEPT ![kids[i]] = hd], kids, i + 1, hd)

BuildStep ==
  /\ pc = "build"
  /\ queue # << >>
  /\ LET x  == Head(queue)
         st == InsertEdges(g[x], 1, FALSE, x, d, pred,
                           [hp |-> heap, hd |-> h[x]])
     IN /\ heap' = st.hp
        /\ h' = Propagate([h EXCEPT ![x] = st.hd], tree[x], 1, st.hd)
        /\ queue' = Tail(queue) \o tree[x]
  /\ UNCHANGED << inputs, pc, d, pred, tree, results, pq, iter, spRet,
                  sidetracks_used, path, u, ret >>

\* lines 135-141, once the builder's queue is empty
EnumInit ==
  /\ pc = "build"
  /\ queue = << >>
  /\ results' = << << d[src], << >> >> >>
  /\ IF h[src] = None
     THEN /\ SpReturn(<< d[src], << >> >>)
          /\ pq' = pq
     ELSE /\ pq' = << [cd   |-> d[src] + heap[h[src]].key,
                       node |-> h[src],
                       path |-> << >>] >>
          /\ pc' = "enum"
          /\ UNCHANGED << spRet, sidetracks_used, path, u, ret >>
  /\ UNCHANGED << inputs, d, pred, tree, heap, h, queue, iter >>

\* lines 153-158: the successors of the popped entry
PushSuccessors(hp, hh, front, cd, node, oldp, newp) ==
  LET n  == hp[node]
      f1 == IF hh[n.value] # None
            THEN HeapPush(hp, front, [cd   |-> cd + hp[hh[n.value]].key,
                                      node |-> hh[n.value],
                                      path |-> newp])
            ELSE front
      f2 == IF n.left # None
            THEN HeapPush(hp, f1, [cd   |-> cd + hp[n.left].key - n.key,
                                   node |-> n.left,
                                   path |-> oldp])
            ELSE f1
      f3 == IF n.right # None
            THEN HeapPush(hp, f2, [cd   |-> cd + hp[n.right].key - n.key,
                                   node |-> n.right,
                                   path |-> oldp])
            ELSE f2
  IN f3

\* one iteration of "while pq and len(results) < k", lines 143-158
EnumStep ==
  /\ pc = "enum"
  /\ pq # << >>
  /\ Len(results) < k
  /\ iter < MaxIter
  /\ LET p        == HeapPop(heap, pq)
         cd       == p.item.cd
         node     == p.item.node
         new_path == Append(p.item.path,
                            << heap[node].origin, heap[node].value >>)
     IN /\ results' = IF Accept(cd, results)
                      THEN Append(results, << cd, new_path >>)
                      ELSE results
        /\ pq' = PushSuccessors(heap, h, p.heap, cd, node, p.item.path,
                                new_path)
  /\ iter' = iter + 1
  /\ UNCHANGED << inputs, pc, d, pred, tree, heap, h, queue, spRet,
                  sidetracks_used, path, u, ret >>

\* line 161, when the loop condition of line 143 fails
EnumReturn ==
  /\ pc = "enum"
  /\ ~ (pq # << >> /\ Len(results) < k)
  /\ SpReturn(results[Len(results)])
  /\ UNCHANGED << inputs, d, pred, tree, heap, h, queue, results, pq, iter >>

\* one iteration of "while u != dst", lines 185-191
ReconStep ==
  /\ pc = "recon"
  /\ u # dst
  /\ path' = Append(path, u)
  /\ IF sidetracks_used # << >> /\ sidetracks_used[1][1] = u
     THEN /\ u' = sidetracks_used[1][2]
          /\ sidetracks_used' = Tail(sidetracks_used)
     ELSE /\ u' = PyAt(pred, u)
          /\ sidetracks_used' = sidetracks_used
  /\ UNCHANGED << inputs, pc, d, pred, tree, heap, h, queue, results, pq,
                  iter, spRet, ret >>

\* lines 192-195, when u = dst
ReconReturn ==
  /\ pc = "recon"
  /\ u = dst
  /\ path' = Append(path, dst)
  /\ ret' = Append(path, dst)
  /\ pc' = "done"
  /\ UNCHANGED << inputs, d, pred, tree, heap, h, queue, results, pq, iter,
                  spRet, sidetracks_used, u >>

Next ==
  \/ GetKthStart
  \/ SpStart
  \/ BuildStep
  \/ EnumInit
  \/ EnumStep
  \/ EnumReturn
  \/ ReconStep
  \/ ReconReturn

Spec == Init /\ [][Next]_vars

SpecStar == InitStar /\ [][Next]_vars

\* ================================================================ oracles
\* What the claims compare a run with, computed from the graph alone.

CostBound == 12

\* the (node, cost) pairs of the walks from the pairs of S, of cost <= bound
RECURSIVE WalkClosure(_, _, _)
WalkClosure(gr, S, bound) ==
  LET T == S \cup
           UNION { { << gr[e[1]][i][2], e[2] + gr[e[1]][i][1] >> :
                       i \in { j \in 1 .. Len(gr[e[1]]) :
                                 e[2] + gr[e[1]][j][1] <= bound } } :
                   e \in S }
  IN IF T = S THEN S ELSE WalkClosure(gr, T, bound)

\* the distinct total costs <= bound of the s-to-t edge sequences of gr
PathCosts(gr, s, t, bound) ==
  { e[2] : e \in { f \in WalkClosure(gr, {<< s, 0 >>}, bound) : f[1] = t } }

\* the nodes reachable from the nodes of S
RECURSIVE ReachFrom(_, _)
ReachFrom(gr, S) ==
  LET T == S \cup UNION { { gr[a][i][2] : i \in 1 .. Len(gr[a]) } : a \in S }
  IN IF T = S THEN S ELSE ReachFrom(gr, T)

Reachable(gr, s, t) == t \in ReachFrom(gr, {s})

\* the n-th smallest element of a set of numbers
NthSmallest(S, n) == CHOOSE c \in S : Cardinality({ x \in S : x < c }) = n - 1

SetMax(S) == CHOOSE c \in S : \A x \in S : x <= c

\* some s-to-t walk can be lengthened by a cycle of positive weight: the
\* distinct s-to-t costs are then unbounded in number
PositiveCycle(gr, s, t) ==
  \E a \in Nodes : \E i \in 1 .. Len(gr[a]) :
    /\ gr[a][i][1] > 0
    /\ LET R == ReachFrom(gr, {gr[a][i][2]})
       IN /\ Reachable(gr, s, a)
          /\ a \in R
          /\ t \in R

\* the sums of edge weights along the node sequence p, one edge per step
RECURSIVE PathSums(_, _, _)
PathSums(gr, p, i) ==
  IF i >= Len(p) THEN {0}
  ELSE { gr[p[i]][j][1] + x :
           j \in { m \in 1 .. Len(gr[p[i]]) : gr[p[i]][m][2] = p[i + 1] },
           x \in PathSums(gr, p, i + 1) }

\* the heap nodes reachable from the reference x
RECURSIVE HeapReach(_, _)
HeapReach(hp, x) ==
  IF x = None THEN {}
  ELSE {x} \cup HeapReach(hp, hp[x].left) \cup HeapReach(hp, hp[x].right)

\* v, pred[v], pred[pred[v]], ..., for a node v that reaches dst
RECURSIVE TreePath(_, _, _)
TreePath(pr, v, fuel) ==
  IF pr[v] = NoPred \/ fuel = 0 THEN {v}
  ELSE {v} \cup TreePath(pr, pr[v], fuel - 1)

Returned == pc = "done" /\ Len(spRet) = 2

\* ================================================================= claims

\* C1: when the call has returned a result and k is at most the number of
\* distinct s-to-t path costs, the returned cost is the k-th smallest
\* distinct cost of the s-to-t edge sequences of g; and the returned cost is
\* the cost of some s-to-t path.
ClaimC1 ==
  Returned =>
    LET C == PathCosts(g, src, dst, CostBound)
    IN k <= Cardinality(C) =>
         /\ spRet[1] = NthSmallest(C, k)
         /\ spRet[1] \in C

\* C2: the node sequence returned by get_kth_shortest_path starts at src,
\* ends at dst, follows edges of g, and its edge weights sum to the cost
\* returned by shortest_paths_no_same_arrival for the same k.
ClaimC2 ==
  (pc = "done" /\ call = "gksp" /\ Len(spRet) = 2) =>
    /\ ret # << >>
    /\ ret[1] = src
    /\ ret[Len(ret)] = dst
    /\ spRet[1] \in PathSums(g, ret, 1)

\* C3: at every point of the enumeration the accepted results are strictly
\* increasing in cost.
ClaimC3 ==
  \A i \in 1 .. (Len(results) - 1) : results[i + 1][1] > results[i][1]

\* a second result is accepted, a popped candidate was rejected, and a
\* candidate tying the last accepted cost is on top of the frontier
WitnessC3 ==
  /\ pc = "enum"
  /\ Len(results) >= 2
  /\ iter >= Len(results)
  /\ pq # << >>
  /\ pq[1].cd = results[Len(results)][1]

\* C4: when dst is reachable from src, the first result is the distance from
\* src to dst that dijkstra computes forward on g, with no sidetrack; it is
\* what the call returns for k = 1.
ClaimC4 ==
  (results # << >> \/ pc = "done") =>
    LET fwd == dijkstra(g, src).d[dst]
    IN fwd # INF =>
         /\ results # << >> => results[1] = << fwd, << >> >>
         /\ (pc = "done" /\ k = 1) => spRet = << fwd, << >> >>

\* a k = 1 call returned from the enumerator for a source with deviations
WitnessC4 ==
  /\ pc = "done"
  /\ k = 1
  /\ src # dst
  /\ h[src] # None
  /\ Len(spRet) = 2
  /\ spRet[1] > 1

\* C5: when dst is not reachable from src, the call returns "no path" (-1
\* from shortest_paths_no_same_arrival, the empty list from
\* get_kth_shortest_path) and no heap is built and no enumeration runs.
ClaimC5 ==
  ~ Reachable(g, src, dst) =>
    /\ pc \in {"start", "done"}
    /\ heap = << >>
    /\ queue = << >>
    /\ pq = << >>
    /\ results = << >>
    /\ iter = 0
    /\ pc = "done" =>
         IF call = "spnsa" THEN spRet = << NoPath >>
         ELSE ret = << >> /\ spRet = Unset

\* a call for the largest k returned -1 on an unreachable destination
WitnessC5 ==
  /\ pc = "done"
  /\ ~ Reachable(g, src, dst)
  /\ call = "spnsa"
  /\ k = MaxK
  /\ spRet = << NoPath >>

\* C6: when only m distinct s-to-t costs exist and k > m, the call returns
\* what the call with k = m returns, the m-th result.  (The run for k = m
\* takes the same steps until its m-th result is accepted, so its return
\* value is results[m] of this run.)
ClaimC6 ==
  (Returned /\ ~ PositiveCycle(g, src, dst)) =>
    LET m == Cardinality(PathCosts(g, src, dst, CostBound))
    IN k > m =>
         spRet = results[IF Len(results) < m THEN Len(results) ELSE m]

\* the nodes the builder has processed: their handle was handed on
RECURSIVE Processed(_, _)
Processed(v, fuel) ==
  /\ pc = "build"
  /\ d[v] # INF
  /\ \A i \in 1 .. Len(queue) : queue[i] # v
  /\ \/ v = dst
     \/ fuel > 0 /\ pred[v] # NoPred /\ Processed(pred[v], fuel - 1)

\* C7: once the builder has handed h[p] to the tree children of p, no
\* later insert changes a field of a node reachable from h[p].
ClaimC7 ==
  [][ \A p \in Nodes :
        Processed(p, NumNodes) =>
          \A x \in HeapReach(heap, h[p]) : heap'[x] = heap[x] ]_vars

\* A frontier that reproduces itself: the loop condition of line 143 holds
\* and the frontier is one entry, at a cost not above the last result, whose
\* node has key 0, has no children and is the root of the heap of its own
\* target.  The iteration of lines 144-158 pops the entry, accepts nothing
\* (line 149), pushes the same node back at the same cost (line 154) and
\* pushes nothing else, so the next state is such a frontier again.
SelfFeeding ==
  /\ pc = "enum"
  /\ Len(results) < k
  /\ Len(pq) = 1
  /\ pq[1].cd <= results[Len(results)][1]
  /\ heap[pq[1].node].key = 0
  /\ heap[pq[1].node].left = None
  /\ heap[pq[1].node].right = None
  /\ h[heap[pq[1].node].value] = pq[1].node

\* every step from a self-feeding frontier leads to a self-feeding frontier
SelfFeedingPersists == [][SelfFeeding => SelfFeeding']_vars

\* C8: the enumeration loop eventually stops, because the frontier is empty
\* or k results are accepted; so the loop is never at a frontier that
\* reproduces itself, from which it has no way to stop.
ClaimC8 == ~ SelfFeeding

\* C9: every node reachable from a handle h[v] is in heap order, is leftist,
\* and has rank 1 + min(rank(left), rank(right)).
ClaimC9 ==
  \A v \in Nodes : \A x \in HeapReach(heap, h[v]) :
    LET n  == heap[x]
        rl == Rank(heap, n.left)
        rr == Rank(heap, n.right)
    IN /\ n.left # None => n.key <= heap[n.left].key
       /\ n.right # None => n.key <= heap[n.right].key
       /\ rl >= rr
       /\ n.rank = 1 + (IF rl < rr THEN rl ELSE rr)

\* C10: when the builder has finished, every deviation reachable from h[v]
\* has its origin on the tree path from v to dst; and the reconstructor has
\* consumed every sidetrack of the result when it returns.
ClaimC10 ==
  /\ pc \in {"enum", "recon", "done"} =>
       \A v \in Nodes :
         d[v] # INF =>
           \A x \in HeapReach(heap, h[v]) :
             heap[x].origin \in TreePath(pred, v, NumNodes)
  /\ (pc = "done" /\ call = "gksp") => sidetracks_used = << >>

====
